---------------------------- MODULE Spec2Model ----------------------------
(***************************************************************************)
(* news_recommender/data_ingestion/fetch_articles.py as a state machine.   *)
(*                                                                         *)
(*   SpecAlloc  calls of get_num_articles, the correction loop one         *)
(*              iteration per step                                         *)
(*   SpecAllocLive  SpecAlloc, a started call being executed to its end    *)
(*   SpecCache  calls of save_api_response_to_cache and                    *)
(*              load_api_response_from_cache, on the bytes of the files    *)
(*   SpecFetch  calls of fetch_single_query_from_newsapi against a cache   *)
(*              directory and a network that answers as it likes           *)
(*   Spec       the script's __main__ block (get_num_articles, then        *)
(*              fetch_all_articles), run up to MaxRuns times, and direct   *)
(*              calls of fetch_all_articles                                *)
(*                                                                         *)
(* The program is single-threaded: every function call is one step, except *)
(* get_num_articles, whose loop is stepped.                                *)
(***************************************************************************)
EXTENDS Integers, Sequences, FiniteSets, TLC

(***************************************************************************)
(* Bounds of the model.                                                    *)
(***************************************************************************)
\* num_categories of a direct call of get_num_articles is in 1..MaxCategories
MaxCategories == 3
\* target_num is in 0..MaxTarget; the script's own target (API_LIMIT) is MaxTarget
MaxTarget == 3
\* a truncated-normal sample is a multiple of 1/SampleScale
SampleScale == 2
\* page sizes of direct calls of fetch_single_query_from_newsapi: 1..MaxPageSize
MaxPageSize == 2
\* the days the program runs on: 1..MaxDay
MaxDay == 2
\* calls of fetch_single_query_from_newsapi in a behaviour of SpecFetch
MaxCalls == 2
\* runs of the script in a behaviour of Spec
MaxRuns == 2
\* the file names that the cache functions are called with directly
MaxCacheFiles == 2

VARIABLES
    \* get_num_articles
    pc,               \* "idle" | "sample" | "loop" | "returned" | "raised"
    num_categories,
    target_num,
    rounded_samples,  \* the list, as a function on 1..num_categories
    difference,
    difference0,      \* history: difference when the loop was entered
    iterations,       \* history: iterations of the correction loop so far
    \* the world
    today,            \* datetime.today().date(), a day number
    cache,            \* the files of CACHE_DIR: file name -> text
    cache0,           \* history: the files CACHE_DIR held when the program started
    files,            \* the files under RAW_ARTICLES_DIR: path -> text
    api,              \* what the news API answers for each category
    \* fetch_single_query_from_newsapi
    calls,            \* history: number of calls made
    lastIo,           \* history: the last direct call of a cache function, and
                      \* what was last saved under each file name
    lastCall,         \* history: the last call, its inputs and what it did, the
                      \* requests.get calls of all calls so far and the calls
                      \* so far that found no file under their cache file name
    \* __main__ and fetch_all_articles
    mainpc,           \* "off" | "start" | "allocating" | "ended" | "direct"
    runs,             \* history: runs of the script started
    lastAll,          \* history: the last fetch_all_articles call
    runLog            \* history: the fetch_all_articles calls of the script's runs

allocVars == <<pc, num_categories, target_num, rounded_samples, difference,
               difference0, iterations>>
worldVars == <<today, cache, cache0, files, api>>
fetchVars == <<calls, lastCall, lastIo>>
mainVars  == <<mainpc, runs, lastAll, runLog>>
vars == <<allocVars, worldVars, fetchVars, mainVars>>

(***************************************************************************)
(* Python values.                                                          *)
(***************************************************************************)
RECURSIVE SumTo(_, _)
\* sum(f[1..n]): the builtin sum over a list
SumTo(f, n) == IF n = 0 THEN 0 ELSE f[n] + SumTo(f, n - 1)

\* round(x) for x = q / SampleScale >= 0: to the nearest integer, a tie to
\* the even one
PyRound(q) ==
    LET fl == q \div SampleScale
        r  == q % SampleScale
    IN  IF 2 * r < SampleScale THEN fl
        ELSE IF 2 * r > SampleScale THEN fl + 1
        ELSE IF fl % 2 = 0 THEN fl ELSE fl + 1

\* max(0, x)
Max0(x) == IF x > 0 THEN x ELSE 0

(***************************************************************************)
(* get_num_articles(num_categories, target_num)                            *)
(***************************************************************************)
\* std_dev = target_num / num_categories / 2 is 0.0 exactly when target_num
\* is 0; the divisions by std_dev then raise ZeroDivisionError
StdDevIsZero(n, t) == t = 0

\* truncnorm.rvs(a, b, loc, scale, size): size reals in [lower_bound,
\* upper_bound] = [0, target_num], here in units of 1/SampleScale
TruncnormRvs(n, t) == [1 .. n -> 0 .. t * SampleScale]

\* rounded_samples = [max(0, round(sample)) for sample in samples]
RoundSamples(samples) == [i \in DOMAIN samples |-> Max0(PyRound(samples[i]))]

\* eligible_indices = [i for i, count in enumerate(rounded_samples) if count > 0]
EligibleIndicesAny(rs) == DOMAIN rs
EligibleIndices(rs) == {i \in DOMAIN rs : rs[i] > 0}

\* lines 42-47: the call, up to the sampling
EnterGetNumArticles(n, t) ==
    /\ num_categories' = n
    /\ target_num' = t
    /\ rounded_samples' = << >>
    /\ difference' = 0
    /\ difference0' = 0
    /\ iterations' = 0
    /\ pc' = IF StdDevIsZero(n, t) THEN "raised" ELSE "sample"

\* a direct call, with any arguments
CallGetNumArticles ==
    /\ pc \in {"idle", "returned", "raised"}
    /\ mainpc = "off"
    /\ \E n \in 1 .. MaxCategories, t \in 0 .. MaxTarget : EnterGetNumArticles(n, t)
    /\ UNCHANGED <<worldVars, fetchVars, mainVars>>

\* lines 49-55
Sample ==
    /\ pc = "sample"
    /\ \E samples \in TruncnormRvs(num_categories, target_num) :
          LET rs == RoundSamples(samples)
              d  == target_num - SumTo(rs, num_categories)
          IN  /\ rounded_samples' = rs
              /\ difference' = d
              /\ difference0' = d
    /\ pc' = "loop"
    /\ UNCHANGED <<num_categories, target_num, iterations>>
    /\ UNCHANGED <<worldVars, fetchVars, mainVars>>

\* lines 56-61: one iteration with difference > 0
IncrementCountsTwice ==
    /\ pc = "loop"
    /\ difference > 0
    /\ \E idx_to_change \in 1 .. num_categories :
          rounded_samples' =
              [rounded_samples EXCEPT ![idx_to_change] = @ + 1]
    /\ difference' = difference - 2
    /\ iterations' = iterations + 1
    /\ UNCHANGED <<pc, num_categories, target_num, difference0>>
    /\ UNCHANGED <<worldVars, fetchVars, mainVars>>
Increment ==
    /\ pc = "loop"
    /\ difference > 0
    /\ \E idx_to_change \in 1 .. num_categories :
          rounded_samples' =
              [rounded_samples EXCEPT ![idx_to_change] = @ + 1]
    /\ difference' = difference - 1
    /\ iterations' = iterations + 1
    /\ UNCHANGED <<pc, num_categories, target_num, difference0>>
    /\ UNCHANGED <<worldVars, fetchVars, mainVars>>

\* lines 56, 62-69: one iteration with difference < 0; np.random.choice of an
\* empty list raises ValueError
Decrement ==
    /\ pc = "loop"
    /\ difference < 0
    /\ IF EligibleIndices(rounded_samples) = {}
       THEN /\ pc' = "raised"
            /\ UNCHANGED <<rounded_samples, difference, iterations>>
       ELSE /\ \E idx_to_change \in EligibleIndices(rounded_samples) :
                  rounded_samples' =
                      [rounded_samples EXCEPT ![idx_to_change] = @ - 1]
            /\ difference' = difference + 1
            /\ iterations' = iterations + 1
            /\ pc' = pc
    /\ UNCHANGED <<num_categories, target_num, difference0>>
    /\ UNCHANGED <<worldVars, fetchVars, mainVars>>

\* lines 56, 71: the loop's exit and the return of rounded_samples
Return ==
    /\ pc = "loop"
    /\ difference = 0
    /\ pc' = "returned"
    /\ UNCHANGED <<num_categories, target_num, rounded_samples, difference,
                   difference0, iterations>>
    /\ UNCHANGED <<worldVars, fetchVars, mainVars>>


(***************************************************************************)
(* JSON values, files and the network.                                     *)
(***************************************************************************)
\* None
PyNone == [type |-> "NoneType", keys |-> {}, status |-> "", articles |-> << >>]

\* a dict parsed from JSON: the keys it has, and the values of "status" and
\* "articles" when it has them
Dict(keys, status, articles) ==
    [type |-> "dict", keys |-> keys, status |-> status, articles |-> articles]

\* {}
EmptyDict == Dict({}, "", << >>)
\* the API's error envelope {"status": "error", "code": ..., "message": ...}
ErrorBody == Dict({"status", "code", "message"}, "error", << >>)
\* the API's success envelope {"status": "ok", "totalResults": ..., "articles": [...]}
OkBody(articles) == Dict({"status", "totalResults", "articles"}, "ok", articles)

\* bool(v), as `if cached_data:` and `if data and ...` take it: None and
\* the empty dict are false
TruthyNever(v) == FALSE
Truthy(v) == v.type = "dict" /\ v.keys # {}

\* data.get("status") == "ok"
StatusIsOkLax(data) == TRUE
StatusIsOk(data) == "status" \in data.keys /\ data.status = "ok"

\* an article of the "articles" list: url is NoUrl when the article has no
\* "url" (or null); a title is its first 50 characters and the rest
NoUrl == "<None>"
Title(head, rest) == [kind |-> "str", head |-> head, rest |-> rest]
NoTitle == [kind |-> "missing", head |-> "", rest |-> ""]
Article(url, title) == [url |-> url, title |-> title]

\* json.dump(data, f, ensure_ascii=False, indent=4): the text of a file,
\* named by the value it holds (its bytes are those of json_dump below)
JsonDump(data) == [fmt |-> "json", val |-> data]
\* a file that does not hold JSON
Garbage == [fmt |-> "garbage", val |-> PyNone]
\* json.load(f): raises JSONDecodeError on a text that is not JSON
JsonLoad(text) ==
    [raised |-> text.fmt # "json",
     value  |-> IF text.fmt = "json" THEN text.val ELSE PyNone]

\* str and datetime.date objects
PyStr(s) == [type |-> "str", s |-> s]
\* datetime.today().date(): a date object, whose str() is the ISO date
TodayDate(day) == [type |-> "date", s |-> "2025-06-0" \o ToString(day)]
\* f"{x}"
Format(x) == x.s

\* os.path.join(a, b): TypeError unless both are str (or bytes, PathLike)
OsPathJoin(a, b) ==
    IF a.type = "str" /\ b.type = "str"
    THEN [raised |-> FALSE, path |-> a.s \o "/" \o b.s]
    ELSE [raised |-> TRUE, path |-> ""]

RAW_ARTICLES_DIR == "data/raw/articles"
CACHE_DIR == "data/raw/api_cache"
\* the categories of the model: the first two of the seven
NEWS_CATEGORIES == <<"business", "entertainment">>
\* the script's target total, scaled down from 100
API_LIMIT == MaxTarget

Categories == {NEWS_CATEGORIES[i] : i \in DOMAIN NEWS_CATEGORIES}

\* requests.get(...) raising ConnectionError or Timeout: no response
NoResponse == [kind |-> "ConnectionError", status_code |-> 0, body |-> PyNone]
\* a response with a status code and a JSON body
Response(status_code, body) ==
    [kind |-> "response", status_code |-> status_code, body |-> body]

\* response.raise_for_status(): HTTPError for a 4xx or 5xx status
RaiseForStatusNever(net) == FALSE
RaiseForStatus(net) == net.status_code >= 400 /\ net.status_code < 600

(***************************************************************************)
(* The cache (lines 74-88).  A directory is a function from the names of   *)
(* the files that exist in it to their texts.                              *)
(***************************************************************************)
\* open(cache_filename, "w") and json.dump: creates or overwrites
save_api_response_to_cache(fs, cache_filename, data) ==
    (cache_filename :> JsonDump(data)) @@ fs

\* os.path.exists, then json.load; None when there is no file
load_api_response_from_cache(fs, cache_filename) ==
    IF cache_filename \in DOMAIN fs
    THEN JsonLoad(fs[cache_filename])
    ELSE [raised |-> FALSE, value |-> PyNone]

(***************************************************************************)
(* The cache functions on the text of the files (lines 74-88): what        *)
(* json.dump(data, f, ensure_ascii=False, indent=4) writes through a file  *)
(* opened with encoding="utf-8", and what json.load reads back.  A text is *)
(* a sequence of characters, a file a sequence of bytes.  Strings are      *)
(* Unicode text (sequences of characters that UTF-8 can encode).           *)
(***************************************************************************)
\* Python values that JSON has: None, bool, int, str, list, and dict with
\* str keys (its items in insertion order)
JNone == [kind |-> "None", val |-> << >>]
JBool(b) == [kind |-> "bool", val |-> b]
JInt(n) == [kind |-> "int", val |-> n]
JStr(chars) == [kind |-> "str", val |-> chars]
JList(items) == [kind |-> "list", val |-> items]
JDict(items) == [kind |-> "dict", val |-> items]

\* the characters of the model outside ASCII: U+00E9, and what its two
\* UTF-8 bytes are when each is read as one Latin-1 character
EAcute == "U+00E9"
ATilde == "U+00C3"
Copyright == "U+00A9"

\* "0", ..., "9"
DigitChar(d) == ToString(d)
IsDigit(c) == \E d \in 0 .. 9 : c = DigitChar(d)
DigitValue(c) == CHOOSE d \in 0 .. 9 : c = DigitChar(d)

RECURSIVE Digits(_)
\* str(n) for n >= 0
Digits(n) ==
    IF n < 10 THEN <<DigitChar(n)>>
    ELSE Digits(n \div 10) \o <<DigitChar(n % 10)>>

\* int.__repr__, as the encoder writes an int
EncodeInt(n) == IF n < 0 THEN <<"-">> \o Digits(-n) ELSE Digits(n)

\* the encoder's escapes with ensure_ascii=False: the quote, the backslash
\* and the control characters; every other character is written as it is
EscapeChar(c) ==
    IF c = "\"" THEN <<"\\", "\"">>
    ELSE IF c = "\\" THEN <<"\\", "\\">>
    ELSE IF c = "\n" THEN <<"\\", "n">>
    ELSE <<c>>

RECURSIVE ConcatRange(_, _, _)
\* parts[lo] \o ... \o parts[hi]
ConcatRange(parts, lo, hi) ==
    IF lo > hi THEN << >>
    ELSE IF lo = hi THEN parts[lo]
    ELSE LET mid == (lo + hi) \div 2
         IN  ConcatRange(parts, lo, mid) \o ConcatRange(parts, mid + 1, hi)

\* "".join(parts)
Concat(parts) == ConcatRange(parts, 1, Len(parts))

\* a str between quotes
EncodeStr(chars) ==
    <<"\"">> \o Concat([i \in DOMAIN chars |-> EscapeChar(chars[i])]) \o <<"\"">>

\* indent=4: a newline and 4 spaces per level before every item
NewlineIndent(level) == <<"\n">> \o [i \in 1 .. 4 * level |-> " "]

RECURSIVE Encode(_, _)
RECURSIVE EncodeItems(_, _, _)
RECURSIVE EncodeMembers(_, _, _)
\* the text of a value at a nesting level; with an indent the item
\* separator is "," and the key separator ": "
Encode(v, level) ==
    CASE v.kind = "None" -> <<"n", "u", "l", "l">>
      [] v.kind = "bool" -> IF v.val THEN <<"t", "r", "u", "e">>
                            ELSE <<"f", "a", "l", "s", "e">>
      [] v.kind = "int"  -> EncodeInt(v.val)
      [] v.kind = "str"  -> EncodeStr(v.val)
      [] v.kind = "list" ->
            IF v.val = << >> THEN <<"[", "]">>
            ELSE <<"[">> \o EncodeItems(v.val, 1, level + 1)
                 \o NewlineIndent(level) \o <<"]">>
      [] v.kind = "dict" ->
            IF v.val = << >> THEN <<"{", "}">>
            ELSE <<"{">> \o EncodeMembers(v.val, 1, level + 1)
                 \o NewlineIndent(level) \o <<"}">>

EncodeItems(items, i, level) ==
    NewlineIndent(level) \o Encode(items[i], level)
    \o IF i = Len(items) THEN << >>
       ELSE <<",">> \o EncodeItems(items, i + 1, level)

EncodeMembers(items, i, level) ==
    NewlineIndent(level) \o EncodeStr(items[i][1]) \o <<":", " ">>
    \o Encode(items[i][2], level)
    \o IF i = Len(items) THEN << >>
       ELSE <<",">> \o EncodeMembers(items, i + 1, level)

\* json.dump(data, f, ensure_ascii=False, indent=4): the characters written
json_dump(data) == Encode(data, 0)

\* the decoder: ok is FALSE where it raises JSONDecodeError; pos is the
\* position after what was read
Fail(pos) == [ok |-> FALSE, val |-> JNone, pos |-> pos]
Got(v, pos) == [ok |-> TRUE, val |-> v, pos |-> pos]

IsWhitespace(c) == c \in {" ", "\n"}

RECURSIVE SkipWhitespace(_, _)
SkipWhitespace(text, pos) ==
    IF pos <= Len(text) /\ IsWhitespace(text[pos])
    THEN SkipWhitespace(text, pos + 1)
    ELSE pos

HasWord(text, pos, word) ==
    /\ pos + Len(word) - 1 <= Len(text)
    /\ SubSeq(text, pos, pos + Len(word) - 1) = word

RECURSIVE ScanString(_, _, _)
\* the characters of a string from pos, after its opening quote
ScanString(text, pos, acc) ==
    IF pos > Len(text) THEN Fail(pos)
    ELSE IF text[pos] = "\"" THEN Got(JStr(acc), pos + 1)
    ELSE IF text[pos] = "\n" THEN Fail(pos)
    ELSE IF text[pos] # "\\" THEN ScanString(text, pos + 1, Append(acc, text[pos]))
    ELSE IF pos + 1 > Len(text) THEN Fail(pos)
    ELSE IF text[pos + 1] \in {"\"", "\\"}
    THEN ScanString(text, pos + 2, Append(acc, text[pos + 1]))
    ELSE IF text[pos + 1] = "n"
    THEN ScanString(text, pos + 2, Append(acc, "\n"))
    ELSE Fail(pos)

RECURSIVE ScanDigits(_, _, _)
ScanDigits(text, pos, acc) ==
    IF pos <= Len(text) /\ IsDigit(text[pos])
    THEN ScanDigits(text, pos + 1, 10 * acc + DigitValue(text[pos]))
    ELSE [val |-> acc, pos |-> pos]

\* an int: an optional "-" and at least one digit, a leading 0 alone
ScanInt(text, pos) ==
    LET neg == text[pos] = "-"
        first == IF neg THEN pos + 1 ELSE pos
        r == ScanDigits(text, first, 0)
    IN  IF r.pos = first THEN Fail(pos)
        ELSE IF text[first] = "0" THEN Got(JInt(0), first + 1)
        ELSE Got(JInt(IF neg THEN -r.val ELSE r.val), r.pos)

\* d[key] = value on the items of a dict: a key already there keeps its place
DictSet(items, key, value) ==
    IF \E i \in DOMAIN items : items[i][1] = key
    THEN [i \in DOMAIN items |->
             IF items[i][1] = key THEN <<key, value>> ELSE items[i]]
    ELSE Append(items, <<key, value>>)

RECURSIVE ScanValue(_, _)
RECURSIVE ScanItems(_, _, _)
RECURSIVE ScanMembers(_, _, _)
\* the value that starts at pos
ScanValue(text, pos) ==
    IF pos > Len(text) THEN Fail(pos)
    ELSE IF HasWord(text, pos, <<"n", "u", "l", "l">>) THEN Got(JNone, pos + 4)
    ELSE IF HasWord(text, pos, <<"t", "r", "u", "e">>) THEN Got(JBool(TRUE), pos + 4)
    ELSE IF HasWord(text, pos, <<"f", "a", "l", "s", "e">>) THEN Got(JBool(FALSE), pos + 5)
    ELSE IF text[pos] = "\"" THEN ScanString(text, pos + 1, << >>)
    ELSE IF text[pos] = "-" \/ IsDigit(text[pos]) THEN ScanInt(text, pos)
    ELSE IF text[pos] = "["
    THEN LET p == SkipWhitespace(text, pos + 1)
         IN  IF p <= Len(text) /\ text[p] = "]" THEN Got(JList(<< >>), p + 1)
             ELSE ScanItems(text, p, << >>)
    ELSE IF text[pos] = "{"
    THEN LET p == SkipWhitespace(text, pos + 1)
         IN  IF p <= Len(text) /\ text[p] = "}" THEN Got(JDict(<< >>), p + 1)
             ELSE ScanMembers(text, p, << >>)
    ELSE Fail(pos)

\* the items of a list from pos, where an item starts
ScanItems(text, pos, acc) ==
    LET r == ScanValue(text, pos)
        p == SkipWhitespace(text, r.pos)
    IN  IF ~r.ok THEN r
        ELSE IF p > Len(text) THEN Fail(p)
        ELSE IF text[p] = ","
        THEN ScanItems(text, SkipWhitespace(text, p + 1), Append(acc, r.val))
        ELSE IF text[p] = "]" THEN Got(JList(Append(acc, r.val)), p + 1)
        ELSE Fail(p)

\* the members of a dict from pos, where a key starts
ScanMembers(text, pos, acc) ==
    IF pos > Len(text) \/ text[pos] # "\"" THEN Fail(pos)
    ELSE LET k == ScanString(text, pos + 1, << >>)
             c == SkipWhitespace(text, k.pos)
             r == ScanValue(text, SkipWhitespace(text, c + 1))
             p == SkipWhitespace(text, r.pos)
         IN  IF ~k.ok THEN k
             ELSE IF c > Len(text) \/ text[c] # ":" THEN Fail(c)
             ELSE IF ~r.ok THEN r
             ELSE IF p > Len(text) THEN Fail(p)
             ELSE IF text[p] = ","
             THEN ScanMembers(text, SkipWhitespace(text, p + 1),
                              DictSet(acc, k.val.val, r.val))
             ELSE IF text[p] = "}"
             THEN Got(JDict(DictSet(acc, k.val.val, r.val)), p + 1)
             ELSE Fail(p)

\* json.load(f) on the characters read: one value, whitespace around it
json_load(text) ==
    LET r == ScanValue(text, SkipWhitespace(text, 1))
    IN  IF r.ok /\ SkipWhitespace(text, r.pos) > Len(text)
        THEN [raised |-> FALSE, value |-> r.val]
        ELSE [raised |-> TRUE, value |-> JNone]

\* the bytes of a character in UTF-8: an ASCII character is one byte,
\* U+00E9 is 0xC3 0xA9
Utf8Bytes(c) == IF c = EAcute THEN <<"0xC3", "0xA9">> ELSE <<c>>

\* what a file opened with encoding="utf-8" holds after the text is written
Utf8Encode(chars) == Concat([i \in DOMAIN chars |-> Utf8Bytes(chars[i])])

\* the text a file gives when it is read one byte a character
Latin1Decode(bytes) ==
    [raised |-> FALSE,
     chars  |-> [i \in DOMAIN bytes |->
                    IF bytes[i] = "0xC3" THEN ATilde
                    ELSE IF bytes[i] = "0xA9" THEN Copyright
                    ELSE bytes[i]]]

\* a lead byte without its continuation byte, or the reverse
NotUtf8(bytes) ==
    \E i \in DOMAIN bytes :
        \/ bytes[i] = "0xC3" /\ (i = Len(bytes) \/ bytes[i + 1] # "0xA9")
        \/ bytes[i] = "0xA9" /\ (i = 1 \/ bytes[i - 1] # "0xC3")

\* the text a file opened with encoding="utf-8" gives; UnicodeDecodeError on
\* bytes that are not UTF-8
Utf8Decode(bytes) ==
    IF NotUtf8(bytes) THEN [raised |-> TRUE, chars |-> << >>]
    ELSE [raised |-> FALSE,
          chars  |-> Concat([i \in DOMAIN bytes |->
                                IF bytes[i] = "0xC3" THEN <<EAcute>>
                                ELSE IF bytes[i] = "0xA9" THEN << >>
                                ELSE <<bytes[i]>>])]

\* lines 77-78: open(cache_filename, "w", encoding="utf-8") creates the file
\* or empties it, json.dump writes the text
SaveApiResponseToCache(fs, cache_filename, data) ==
    (cache_filename :> Utf8Encode(json_dump(data))) @@ fs

\* lines 83-88: None without a file; else the file is read and parsed
LoadApiResponseFromCache(fs, cache_filename) ==
    IF cache_filename \in DOMAIN fs
    THEN LET read == Utf8Decode(fs[cache_filename])
         IN  IF read.raised THEN [raised |-> TRUE, value |-> JNone]
             ELSE json_load(read.chars)
    ELSE [raised |-> FALSE, value |-> JNone]


(***************************************************************************)
(* fetch_single_query_from_newsapi(category, page_size) (lines 91-115),    *)
(* run on day `day` against the cache directory fs, the network answering  *)
(* net to a request.  value: what it returns; raised: an exception left    *)
(* it; sent: the requests.get calls it made.                               *)
(***************************************************************************)
\* lines 95-97
FullCacheFilenameNoSize(day, category, page_size) ==
    OsPathJoin(PyStr(CACHE_DIR),
               PyStr(Format(TodayDate(day)) \o "_" \o category \o ".json")).path
FullCacheFilename(day, category, page_size) ==
    LET today_date_str == TodayDate(day)
        cache_filename ==
            Format(today_date_str) \o "_" \o category \o "_" \o ToString(page_size)
    IN  OsPathJoin(PyStr(CACHE_DIR), PyStr(cache_filename \o ".json")).path

\* lines 101-115: the request and what is done with its outcome
RequestAndStore(fs, full_cache_filename, category, page_size, net) ==
    LET sent == <<[category |-> category, pageSize |-> page_size]>>
        none == [value |-> PyNone, raised |-> FALSE, cache |-> fs, sent |-> sent]
    IN  IF net.kind = "ConnectionError" THEN none
        ELSE IF RaiseForStatus(net) THEN none
        ELSE LET data == net.body
             IN  IF StatusIsOk(data)
                 THEN [value  |-> data,
                       raised |-> FALSE,
                       cache  |-> save_api_response_to_cache(
                                      fs, full_cache_filename, data),
                       sent   |-> sent]
                 ELSE none

fetch_single_query_from_newsapi(fs, day, category, page_size, net) ==
    LET full_cache_filename == FullCacheFilename(day, category, page_size)
        loaded == load_api_response_from_cache(fs, full_cache_filename)
    IN  IF loaded.raised
        THEN [value |-> PyNone, raised |-> TRUE, cache |-> fs, sent |-> << >>]
        ELSE IF Truthy(loaded.value)
        THEN [value |-> loaded.value, raised |-> FALSE, cache |-> fs,
              sent |-> << >>]
        ELSE RequestAndStore(fs, full_cache_filename, category, page_size, net)


(***************************************************************************)
(* fetch_all_articles(categories, articles_per_category) (lines 118-159).  *)
(***************************************************************************)
\* hashlib.md5(article_url.encode("utf-8")).hexdigest(): taken as injective
Md5Hex(url) == "md5(" \o url \o ")"

\* lines 138-148: the file name of an article just added to article_urls.
\* `if article_url:` is false for None and for "".  title[:50] keeps the
\* first 50 characters; "untitled_<n>" is shorter than 50.
ArticleFilename(article, article_urls) ==
    IF article.url # NoUrl /\ article.url # ""
    THEN Md5Hex(article.url)
    ELSE IF article.title.kind = "str"
    THEN article.title.head
    ELSE "untitled_" \o ToString(Cardinality(article_urls))

\* lines 129-154: one article of a category's list.  st: all_fetched_articles,
\* article_urls, the article files so far, and the paths opened for writing.
ProcessArticle(st, article, today_output_dir) ==
    IF article.url \notin st.article_urls
    THEN LET urls == st.article_urls \cup {article.url}
             article_filename == ArticleFilename(article, urls)
             article_filepath ==
                 OsPathJoin(PyStr(today_output_dir),
                            PyStr(article_filename \o ".json")).path
         IN  [all_fetched_articles |-> Append(st.all_fetched_articles, article),
              article_urls |-> urls,
              files |-> (article_filepath :> JsonDump(article)) @@ st.files,
              writes |-> Append(st.writes, article_filepath)]
    ELSE st

RECURSIVE ProcessArticles(_, _, _, _)
\* line 128: for article in data["articles"], from the i-th on
ProcessArticles(st, articles, i, today_output_dir) ==
    IF i > Len(articles) THEN st
    ELSE ProcessArticles(ProcessArticle(st, articles[i], today_output_dir),
                         articles, i + 1, today_output_dir)

\* line 127: data and data.get("articles")
HasArticles(data) ==
    Truthy(data) /\ "articles" \in data.keys /\ data.articles # << >>

\* the API's answer to a request for page_size articles of a category: the
\* answer it has for the category, an article list cut to page_size
ApiAnswer(answers, category, page_size) ==
    LET net == answers[category]
        n == IF page_size < Len(net.body.articles)
             THEN page_size ELSE Len(net.body.articles)
    IN  [net EXCEPT !.body.articles = SubSeq(@, 1, n)]

\* the st of ProcessArticles, out of and back into the st of the loop
KeptOf(st) ==
    [all_fetched_articles |-> st.all_fetched_articles,
     article_urls |-> st.article_urls,
     files |-> st.files,
     writes |-> st.writes]
WithKept(st, kept) ==
    [st EXCEPT !.all_fetched_articles = kept.all_fetched_articles,
               !.article_urls = kept.article_urls,
               !.files = kept.files,
               !.writes = kept.writes]

\* lines 127-154: what is done with the value a fetch returned
ProcessData(st, data, today_output_dir) ==
    IF HasArticles(data)
    THEN WithKept(st, ProcessArticles(KeptOf(st), data.articles, 1,
                                      today_output_dir))
    ELSE st

\* lines 126-154: one pair of zip(categories, articles_per_category).  st
\* also carries the cache directory, the requests sent and what each fetch
\* returned; an exception leaving the fetch leaves the loop
FetchCategory(st, category, num_articles, day, answers, today_output_dir) ==
    LET r == fetch_single_query_from_newsapi(
                 st.cache, day, category, num_articles,
                 ApiAnswer(answers, category, num_articles))
    IN  IF r.raised THEN [st EXCEPT !.raised = TRUE]
        ELSE ProcessData(
                 [st EXCEPT
                     !.cache = r.cache,
                     !.sent = @ \o r.sent,
                     !.fetched = Append(@, [category |-> category,
                                            page_size |-> num_articles,
                                            value |-> r.value,
                                            sent |-> Len(r.sent)])],
                 r.value, today_output_dir)

RECURSIVE FetchLoop(_, _, _, _, _, _, _)
\* line 125: the pairs of zip(categories, articles_per_category, strict=False)
\* from the i-th on
FetchLoop(st, categories, articles_per_category, i, day, answers, today_output_dir) ==
    IF st.raised \/ i > Len(categories) \/ i > Len(articles_per_category)
    THEN st
    ELSE FetchLoop(FetchCategory(st, categories[i], articles_per_category[i],
                                 day, answers, today_output_dir),
                   categories, articles_per_category, i + 1, day, answers,
                   today_output_dir)

\* the whole call.  status: "reported" when line 156 printed the total,
\* "raised" when an exception left the function; reported: the printed total
fetch_all_articles(cachedir, artfiles, day, answers, categories, articles_per_category) ==
    LET today_date_str == TodayDate(day)
        today_output_dir == OsPathJoin(PyStr(RAW_ARTICLES_DIR), today_date_str)
        st0 == [cache |-> cachedir, files |-> artfiles, sent |-> << >>,
                fetched |-> << >>, raised |-> FALSE,
                all_fetched_articles |-> << >>, article_urls |-> {},
                writes |-> << >>]
        end == IF today_output_dir.raised
               THEN [st0 EXCEPT !.raised = TRUE]
               ELSE FetchLoop(st0, categories, articles_per_category, 1, day,
                              answers, today_output_dir.path)
    IN  [status |-> IF end.raised THEN "raised" ELSE "reported",
         reported |-> IF end.raised THEN -1 ELSE Len(end.all_fetched_articles),
         all_fetched_articles |-> end.all_fetched_articles,
         fetched |-> end.fetched,
         sent |-> end.sent,
         writes |-> end.writes,
         cache |-> end.cache,
         files |-> end.files]


(***************************************************************************)
(* The inputs of the model.                                                *)
(***************************************************************************)
A1  == Article("u1", Title("t1", ""))
\* the same URL as A1, another title
A1b == Article("u1", Title("t2", ""))
A2  == Article("u2", Title("t1", ""))
\* no URL
N1  == Article(NoUrl, Title("t1", ""))
N2  == Article(NoUrl, Title("t2", ""))
\* no URL and no title
N0  == Article(NoUrl, NoTitle)

\* the article lists the API may hold for a category
ArticleLists == {<<A1>>, <<A1b, A2>>, <<N1, N2>>, <<N0, A1, A1b>>}

\* what the network may answer to one request of a direct call
NetOutcomes ==
    {NoResponse, Response(500, OkBody(<<A1>>)), Response(401, ErrorBody),
     Response(200, ErrorBody), Response(200, EmptyDict),
     Response(200, OkBody(<<A1>>)), Response(200, OkBody(<<A2>>))}

\* what the API may hold for a category during the script's runs
ApiOutcomes ==
    {NoResponse, Response(200, ErrorBody)} \cup
    {Response(200, OkBody(l)) : l \in ArticleLists}

PageSizes == 1 .. MaxPageSize

\* the cache directory when the program starts: empty, or holding one file
\* that something else left under one of the first day's cache file names
InitialCaches ==
    {<< >>} \cup
    {FullCacheFilename(1, NEWS_CATEGORIES[1], p) :> text :
        p \in PageSizes,
        text \in {JsonDump(EmptyDict), JsonDump(ErrorBody), Garbage}}

\* the arguments of a direct call of fetch_all_articles
CategoryLists ==
    {<< >>} \cup {<<c>> : c \in Categories} \cup
    {<<c, d>> : c \in Categories, d \in Categories}
QuotaLists ==
    {<< >>} \cup {<<p>> : p \in 0 .. MaxPageSize} \cup
    {<<p, q>> : p \in 0 .. MaxPageSize, q \in 0 .. MaxPageSize}

\* the file names of direct calls of the cache functions
CachePaths ==
    {OsPathJoin(PyStr(CACHE_DIR), PyStr("key" \o ToString(i) \o ".json")).path :
        i \in 1 .. MaxCacheFiles}

\* keys and strings of the JSON objects of the model
KeyA == <<"a">>
KeyB == <<"b">>
\* a str with the characters the encoder escapes and one outside ASCII
Awkward == <<EAcute, "\"", "\\", "\n", "n", " ">>

\* the JSON objects that are saved: the empty one, an API envelope, strings
\* that need escaping, nested and empty containers, and two that differ in
\* the order of their keys only
JsonObjects ==
    {JDict(<< >>),
     JDict(<< <<<<"s", "t", "a", "t", "u", "s">>, JStr(<<"o", "k">>)>>,
              <<KeyA, JInt(120)>> >>),
     JDict(<< <<Awkward, JStr(Awkward)>>,
              <<KeyB, JList(<<JNone, JBool(TRUE), JInt(-7)>>)>> >>),
     JDict(<< <<KeyA, JDict(<< <<KeyA, JList(<< >>)>>, <<KeyB, JDict(<< >>)>> >>)>>,
              <<KeyB, JList(<<JList(<<JInt(0)>>), JStr(<< >>)>>)>> >>),
     JDict(<< <<KeyA, JInt(0)>>, <<KeyB, JBool(FALSE)>> >>),
     JDict(<< <<KeyB, JBool(FALSE)>>, <<KeyA, JInt(0)>> >>)}

NoIo ==
    [op |-> "none", path |-> "", data |-> JNone, raised |-> FALSE,
     value |-> JNone, stored |-> << >>]

NoCall ==
    [made |-> FALSE, day |-> 0, category |-> "", page_size |-> 0,
     net |-> NoResponse, before |-> << >>, value |-> PyNone,
     raised |-> FALSE, sent |-> << >>, requests |-> 0, absent |-> 0]

NoAll ==
    [made |-> FALSE, day |-> 0, categories |-> << >>, quotas |-> << >>,
     cacheBefore |-> << >>, filesBefore |-> << >>, status |-> "",
     reported |-> -1, all_fetched_articles |-> << >>, fetched |-> << >>,
     sent |-> << >>, writes |-> << >>, filesAfter |-> << >>]

(***************************************************************************)
(* The steps of the world and of the callers.                              *)
(***************************************************************************)
\* midnight passes
NextDay ==
    /\ today < MaxDay
    /\ today' = today + 1
    /\ UNCHANGED <<cache, cache0, files, api>>
    /\ UNCHANGED <<allocVars, fetchVars, mainVars>>

\* a direct call fetch_single_query_from_newsapi(category, page_size)
CallFetchSingle ==
    /\ calls < MaxCalls
    /\ \E category \in Categories, page_size \in PageSizes, net \in NetOutcomes :
          LET r == fetch_single_query_from_newsapi(
                       cache, today, category, page_size, net)
          IN  /\ cache' = r.cache
              /\ lastCall' =
                     [made |-> TRUE, day |-> today, category |-> category,
                      page_size |-> page_size, net |-> net, before |-> cache,
                      value |-> r.value, raised |-> r.raised, sent |-> r.sent,
                      requests |-> lastCall.requests + Len(r.sent),
                      absent |-> lastCall.absent +
                          IF FullCacheFilename(today, category, page_size)
                                 \in DOMAIN cache
                          THEN 0 ELSE 1]
    /\ calls' = calls + 1
    /\ UNCHANGED <<today, cache0, files, api>>
    /\ UNCHANGED <<allocVars, mainVars, lastIo>>

\* a direct call save_api_response_to_cache(cache_filename, data)
CallSave ==
    /\ \E cache_filename \in CachePaths, data \in JsonObjects :
          /\ cache' = SaveApiResponseToCache(cache, cache_filename, data)
          /\ lastIo' = [op |-> "save", path |-> cache_filename, data |-> data,
                        raised |-> FALSE, value |-> JNone,
                        stored |-> (cache_filename :> data) @@ lastIo.stored]
    /\ UNCHANGED <<today, cache0, files, api>>
    /\ UNCHANGED <<allocVars, mainVars, calls, lastCall>>

\* a direct call load_api_response_from_cache(cache_filename)
CallLoad ==
    /\ \E cache_filename \in CachePaths :
          LET r == LoadApiResponseFromCache(cache, cache_filename)
          IN  lastIo' = [op |-> "load", path |-> cache_filename,
                         data |-> JNone, raised |-> r.raised,
                         value |-> r.value, stored |-> lastIo.stored]
    /\ UNCHANGED worldVars
    /\ UNCHANGED <<allocVars, mainVars, calls, lastCall>>

\* what a call of fetch_all_articles leaves behind
DoFetchAll(categories, articles_per_category, record) ==
    LET r == fetch_all_articles(cache, files, today, api, categories,
                                articles_per_category)
        rec == [made |-> TRUE, day |-> today, categories |-> categories,
                quotas |-> articles_per_category, cacheBefore |-> cache,
                filesBefore |-> files, status |-> r.status,
                reported |-> r.reported,
                all_fetched_articles |-> r.all_fetched_articles,
                fetched |-> r.fetched, sent |-> r.sent, writes |-> r.writes,
                filesAfter |-> r.files]
    IN  /\ cache' = r.cache
        /\ files' = r.files
        /\ lastAll' = rec
        /\ runLog' = IF record THEN Append(runLog, rec) ELSE runLog

\* a direct call fetch_all_articles(categories, articles_per_category)
CallFetchAllArticles ==
    /\ mainpc = "direct"
    /\ \E categories \in CategoryLists, quotas \in QuotaLists :
          DoFetchAll(categories, quotas, FALSE)
    /\ UNCHANGED <<today, cache0, api>>
    /\ UNCHANGED <<allocVars, fetchVars, mainpc, runs>>

\* lines 162-165: the script starts (again) and calls get_num_articles
MainStart ==
    /\ mainpc \in {"start", "ended"}
    /\ runs < MaxRuns
    /\ EnterGetNumArticles(Len(NEWS_CATEGORIES), API_LIMIT)
    /\ mainpc' = "allocating"
    /\ runs' = runs + 1
    /\ UNCHANGED <<worldVars, fetchVars, lastAll, runLog>>

\* line 166: fetch_all_articles(NEWS_CATEGORIES, articles_per_category), and
\* the script's end
MainFetchAll ==
    /\ mainpc = "allocating"
    /\ pc = "returned"
    /\ DoFetchAll(NEWS_CATEGORIES, rounded_samples, TRUE)
    /\ mainpc' = "ended"
    /\ UNCHANGED <<today, cache0, api>>
    /\ UNCHANGED <<allocVars, fetchVars, runs>>

(***************************************************************************)
(* The specifications.                                                     *)
(***************************************************************************)
InitAllocVars ==
    /\ num_categories = 0
    /\ target_num = 0
    /\ rounded_samples = << >>
    /\ difference = 0
    /\ difference0 = 0
    /\ iterations = 0

InitFetchVars ==
    /\ calls = 0
    /\ lastCall = NoCall
    /\ lastIo = NoIo

InitMainVars ==
    /\ runs = 0
    /\ lastAll = NoAll
    /\ runLog = << >>

\* get_num_articles alone
InitAlloc ==
    /\ pc = "idle"
    /\ InitAllocVars
    /\ today = 1
    /\ cache = << >>
    /\ cache0 = << >>
    /\ files = << >>
    /\ api = [c \in Categories |-> NoResponse]
    /\ InitFetchVars
    /\ mainpc = "off"
    /\ InitMainVars

NextAlloc == CallGetNumArticles \/ Sample \/ Increment \/ Decrement \/ Return

SpecAlloc == InitAlloc /\ [][NextAlloc]_vars

\* the interpreter goes on executing a call it has started: a statement that
\* can run does run
FairAlloc ==
    /\ WF_vars(Sample)
    /\ WF_vars(Increment)
    /\ WF_vars(Decrement)
    /\ WF_vars(Return)

SpecAllocLive == SpecAlloc /\ FairAlloc

\* fetch_single_query_from_newsapi alone
InitFetch ==
    /\ pc = "off"
    /\ InitAllocVars
    /\ today = 1
    /\ cache \in InitialCaches
    /\ cache0 = cache
    /\ files = << >>
    /\ api = [c \in Categories |-> NoResponse]
    /\ InitFetchVars
    /\ mainpc = "off"
    /\ InitMainVars

NextFetch == CallFetchSingle \/ NextDay

SpecFetch == InitFetch /\ [][NextFetch]_vars

\* the two cache functions alone, on a cache directory that is empty when
\* the program starts
InitCache ==
    /\ pc = "off"
    /\ InitAllocVars
    /\ today = 1
    /\ cache = << >>
    /\ cache0 = << >>
    /\ files = << >>
    /\ api = [c \in Categories |-> NoResponse]
    /\ InitFetchVars
    /\ mainpc = "off"
    /\ InitMainVars

NextCache == CallSave \/ CallLoad

SpecCache == InitCache /\ [][NextCache]_vars

\* the script, and fetch_all_articles called directly
Init ==
    /\ pc = "idle"
    /\ InitAllocVars
    /\ today = 1
    /\ cache = << >>
    /\ cache0 = << >>
    /\ files = << >>
    /\ api \in [Categories -> ApiOutcomes]
    /\ InitFetchVars
    /\ mainpc \in {"start", "direct"}
    /\ InitMainVars

Next ==
    \/ MainStart
    \/ Sample
    \/ Increment
    \/ Decrement
    \/ Return
    \/ MainFetchAll
    \/ CallFetchAllArticles
    \/ NextDay

Spec == Init /\ [][Next]_vars


(***************************************************************************)
(* Properties.  What a property calls the cache file of a call, an HTTP    *)
(* success or an "ok" body is written out here from the documented layout  *)
(* and envelopes, not taken from the operators above.                      *)
(***************************************************************************)
\* <cache-dir>/<date>_<category>_<pageSize>.json
CacheFileOf(day, category, page_size) ==
    "data/raw/api_cache/" \o TodayDate(day).s \o "_" \o category \o "_"
        \o ToString(page_size) \o ".json"

\* the cache file of a call
KeyOfCall(c) == CacheFileOf(c.day, c.category, c.page_size)

\* the call found no cache file for its key
CallMissed(c) == c.made /\ KeyOfCall(c) \notin DOMAIN c.before

\* the request of the call failed: no response, or a 4xx or 5xx status
HttpFailed(net) ==
    net.kind = "ConnectionError" \/ net.status_code \in 400 .. 599

\* the request of the call was answered 2xx
Http2xx(net) == net.kind = "response" /\ net.status_code \in 200 .. 299

\* the body's status field is "ok"
BodyOk(body) == "status" \in body.keys /\ body.status = "ok"

\* get_num_articles has ended, by returning or by raising
AllocEnded == pc \in {"returned", "raised"}

\* C1: for every num_categories >= 1 and target_num >= 0, and every outcome
\* of the sampling and of the index choices, get_num_articles returns a list
\* of exactly num_categories integers, each >= 0, whose sum is target_num.
C1_ReturnsQuotasSummingToTarget ==
    AllocEnded =>
        /\ pc = "returned"
        /\ DOMAIN rounded_samples = 1 .. num_categories
        /\ \A i \in DOMAIN rounded_samples : rounded_samples[i] \in Nat
        /\ SumTo(rounded_samples, num_categories) = target_num

\* C2: whenever a cache file exists for the call's key, whatever JSON it
\* holds, fetch_single_query_from_newsapi returns the parsed content
\* unchanged and issues no HTTP request.
C2_CacheFileIsReturnedWithoutRequest ==
    (/\ lastCall.made
     /\ KeyOfCall(lastCall) \in DOMAIN lastCall.before
     /\ lastCall.before[KeyOfCall(lastCall)].fmt = "json")
    => /\ ~lastCall.raised
       /\ lastCall.sent = << >>
       /\ lastCall.value = lastCall.before[KeyOfCall(lastCall)].val

\* C6: on a cache miss answered 2xx with a body whose status is not "ok",
\* the call returns None and no cache file is created or modified.
C6_ApiErrorReturnsNoneAndCachesNothing ==
    (/\ CallMissed(lastCall)
     /\ Http2xx(lastCall.net)
     /\ ~BodyOk(lastCall.net.body))
    => /\ ~lastCall.raised
       /\ lastCall.value = PyNone
       /\ cache = lastCall.before

C6_Witness ==
    /\ CallMissed(lastCall)
    /\ lastCall.net = Response(200, ErrorBody)
    /\ lastCall.before # << >>
    /\ lastCall.value = PyNone
    /\ cache = lastCall.before

\* C7: on a cache miss whose request fails (no response, or a 4xx or 5xx
\* status), the call returns None after exactly one request and leaves the
\* cache unchanged.
C7_HttpFailureReturnsNoneAfterOneRequest ==
    (CallMissed(lastCall) /\ HttpFailed(lastCall.net))
    => /\ ~lastCall.raised
       /\ lastCall.value = PyNone
       /\ Len(lastCall.sent) = 1
       /\ cache = lastCall.before

C7_Witness ==
    /\ CallMissed(lastCall)
    /\ lastCall.net = Response(500, OkBody(<<A1>>))
    /\ lastCall.before # << >>
    /\ lastCall.value = PyNone
    /\ Len(lastCall.sent) = 1
    /\ cache = lastCall.before

\* the call missed the cache and was answered 2xx with an "ok" body
MissAnsweredOk(c) ==
    CallMissed(c) /\ Http2xx(c.net) /\ BodyOk(c.net.body)

\* the first half of C8: one request, the response stored under the key of
\* (today, category, page_size) and nowhere else, and returned
C8_Stored ==
    MissAnsweredOk(lastCall)
    => /\ ~lastCall.raised
       /\ lastCall.sent = <<[category |-> lastCall.category,
                             pageSize |-> lastCall.page_size]>>
       /\ lastCall.value = lastCall.net.body
       /\ DOMAIN cache = DOMAIN lastCall.before \cup {KeyOfCall(lastCall)}
       /\ cache[KeyOfCall(lastCall)] = JsonDump(lastCall.net.body)
       /\ \A f \in DOMAIN lastCall.before : cache[f] = lastCall.before[f]

\* the second half of C8: the call that follows such a call, with the same
\* category and page size on the same day, returns equal data and sends no
\* request
C8_NextCallHits ==
    (/\ MissAnsweredOk(lastCall)
     /\ calls' = calls + 1
     /\ lastCall'.day = lastCall.day
     /\ lastCall'.category = lastCall.category
     /\ lastCall'.page_size = lastCall.page_size)
    => /\ lastCall'.sent = << >>
       /\ ~lastCall'.raised
       /\ lastCall'.value = lastCall.value

\* C8: a cache miss answered 2xx with an "ok" body issues exactly one
\* request, stores the response under the key (today, category, page_size)
\* and returns it; the next call with the same category and page size on the
\* same day returns equal data from the cache without a request.
C8_MissStoresAndNextCallHits == []C8_Stored /\ [][C8_NextCallHits]_vars

C8_Witness ==
    /\ calls = 2
    /\ cache0 = << >>
    /\ lastCall.made
    /\ lastCall.sent = << >>
    /\ lastCall.value = OkBody(<<A2>>)
    /\ lastCall.before = (KeyOfCall(lastCall) :> JsonDump(OkBody(<<A2>>)))


(***************************************************************************)
(* Properties of fetch_all_articles and of the script.  They are stated    *)
(* over what the API holds for the categories of a call, which is there    *)
(* whether or not the call gets to ask for it.                             *)
(***************************************************************************)
\* <articles-dir>/<date>/<name>.json
ArticleFileOf(day, name) ==
    "data/raw/articles/" \o TodayDate(day).s \o "/" \o name \o ".json"

\* the number of (category, quota) pairs of a call
PairCount(a) ==
    IF Len(a.categories) < Len(a.quotas) THEN Len(a.categories)
    ELSE Len(a.quotas)

\* the API answers a request for the category 2xx with an "ok" body
AnswersOk(category) ==
    Http2xx(api[category]) /\ BodyOk(api[category].body)

\* the articles the API returns for the i-th pair of the call
Offered(a, i) ==
    IF AnswersOk(a.categories[i])
    THEN LET l == api[a.categories[i]].body.articles
         IN  SubSeq(l, 1, IF a.quotas[i] < Len(l) THEN a.quotas[i] ELSE Len(l))
    ELSE << >>

RECURSIVE OfferedUpTo(_, _)
\* the articles of the first n pairs, in category order and list order
OfferedUpTo(a, n) ==
    IF n = 0 THEN << >> ELSE OfferedUpTo(a, n - 1) \o Offered(a, n)

AllOffered(a) == OfferedUpTo(a, PairCount(a))

RECURSIVE ReturnedUpTo(_, _)
\* the articles of the values the first n fetches of the call returned
ReturnedUpTo(a, n) ==
    IF n = 0 THEN << >>
    ELSE ReturnedUpTo(a, n - 1) \o a.fetched[n].value.articles

HasUrl(article) == article.url # NoUrl /\ article.url # ""

Range(seq) == {seq[i] : i \in DOMAIN seq}

\* C4: a run of fetch_all_articles completes the category loop, reports as
\* total the number of distinct URLs among the articles the category
\* fetches returned, and writes exactly that many article files.
C4_ReportsDistinctUrlsAndWritesThatManyFiles ==
    lastAll.made =>
        LET returned == ReturnedUpTo(lastAll, Len(lastAll.fetched))
            distinct == Cardinality({returned[k].url : k \in DOMAIN returned})
        IN  /\ lastAll.status = "reported"
            /\ Len(lastAll.fetched) = PairCount(lastAll)
            /\ lastAll.reported = distinct
            /\ Cardinality(Range(lastAll.writes)) = distinct

\* C5: two articles of a run that both lack a URL and have different titles
\* are both kept, each written to a file of its own.
C5_UrllessArticlesWithDifferentTitlesAreBothKept ==
    lastAll.made =>
        LET offered == AllOffered(lastAll)
        IN  \A i, j \in DOMAIN offered :
                (/\ offered[i].url = NoUrl
                 /\ offered[j].url = NoUrl
                 /\ offered[i].title.kind = "str"
                 /\ offered[j].title.kind = "str"
                 /\ offered[i].title # offered[j].title)
                => /\ offered[i] \in Range(lastAll.all_fetched_articles)
                   /\ offered[j] \in Range(lastAll.all_fetched_articles)
                   /\ \E f, g \in DOMAIN files :
                          /\ f # g
                          /\ files[f] = JsonDump(offered[i])
                          /\ files[g] = JsonDump(offered[j])

\* the fetch of the i-th pair returns None: the request fails or the body's
\* status is not "ok"
FetchGivesNone(a, i) == ~AnswersOk(a.categories[i])

\* C9: a category whose fetch returns None contributes no article and does
\* not abort the run: every (category, quota) pair is still fetched, in the
\* given order, and the articles of the later ones are written.
C9_FailedCategoryDoesNotAbortTheRun ==
    (/\ lastAll.made
     /\ \E i \in 1 .. PairCount(lastAll) : FetchGivesNone(lastAll, i))
    => /\ lastAll.status = "reported"
       /\ [i \in DOMAIN lastAll.fetched |->
              <<lastAll.fetched[i].category, lastAll.fetched[i].page_size>>]
          = [i \in 1 .. PairCount(lastAll) |->
              <<lastAll.categories[i], lastAll.quotas[i]>>]
       /\ \A i \in 1 .. PairCount(lastAll) :
              FetchGivesNone(lastAll, i) =>
                  /\ lastAll.fetched[i].value = PyNone
                  /\ \A j \in (i + 1) .. PairCount(lastAll) :
                         \A x \in Range(Offered(lastAll, j)) :
                             HasUrl(x) =>
                                 ArticleFileOf(lastAll.day, Md5Hex(x.url))
                                     \in DOMAIN files

\* the k-th offered article is the first one with its URL
IsFirstOccurrence(offered, k) ==
    \A m \in 1 .. (k - 1) : offered[m].url # offered[k].url

\* C10: for each URL, the article kept and written is its first occurrence
\* in category order and list order; later articles with the URL are
\* dropped and leave the kept article and its file as they are.
C10_FirstOccurrenceOfAUrlIsKeptAndWritten ==
    lastAll.made =>
        LET offered == AllOffered(lastAll)
            kept == lastAll.all_fetched_articles
        IN  /\ \A k \in DOMAIN offered :
                   (HasUrl(offered[k]) /\ IsFirstOccurrence(offered, k))
                   => /\ offered[k] \in Range(kept)
                      /\ ArticleFileOf(lastAll.day, Md5Hex(offered[k].url))
                             \in DOMAIN files
                      /\ files[ArticleFileOf(lastAll.day,
                                             Md5Hex(offered[k].url))]
                             = JsonDump(offered[k])
            /\ \A p \in DOMAIN kept :
                   HasUrl(kept[p]) =>
                       \E k \in DOMAIN offered :
                           /\ offered[k] = kept[p]
                           /\ IsFirstOccurrence(offered, k)

\* C3: when the script has run twice on one day against an API that answers
\* every category with an "ok" body, the second run sends no HTTP request,
\* every one of its category fetches is a cache hit, and the article files
\* are left with the content the first run wrote.
C3_SecondRunHitsTheCacheAndKeepsTheFiles ==
    (/\ Len(runLog) >= 2
     /\ runLog[1].day = runLog[2].day
     /\ \A c \in Categories : AnswersOk(c))
    => /\ runLog[2].sent = << >>
       /\ Len(runLog[2].fetched) = Len(NEWS_CATEGORIES)
       /\ \A i \in DOMAIN runLog[2].fetched :
              /\ runLog[2].fetched[i].sent = 0
              /\ runLog[2].fetched[i].value # PyNone
       /\ runLog[2].filesAfter = runLog[1].filesAfter

(***************************************************************************)
(* Further properties of get_num_articles.                                 *)
(***************************************************************************)
\* C11: for every target_num, get_num_articles(1, target_num) returns the
\* one-element list [target_num], whatever the single sample is.
C11_SingleCategoryGetsTheWholeTarget ==
    (AllocEnded /\ num_categories = 1)
    => /\ pc = "returned"
       /\ rounded_samples = <<target_num>>

\* C12: get_num_articles with target_num = 0 does not fail and returns
\* all-zero quotas without an iteration of the correction loop.
C12_ZeroTargetReturnsAllZeroQuotas ==
    (AllocEnded /\ target_num = 0)
    => /\ pc = "returned"
       /\ rounded_samples = [i \in 1 .. num_categories |-> 0]
       /\ iterations = 0

\* C16: in the correction loop, whenever the residual is negative some
\* quota is > 0, so a decrement never meets an empty eligible set (the call
\* is never left by the ValueError of np.random.choice), and no quota is
\* negative in any state.
C16_NegativeResidualHasAnEligibleIndex ==
    /\ (pc = "loop" /\ difference < 0)
       => {i \in DOMAIN rounded_samples : rounded_samples[i] > 0} # {}
    /\ \A i \in DOMAIN rounded_samples : rounded_samples[i] >= 0
    /\ pc = "raised" => iterations = 0 /\ rounded_samples = << >>

C16_Witness ==
    /\ pc = "loop"
    /\ difference < 0
    /\ iterations > 0
    /\ \E i \in DOMAIN rounded_samples : rounded_samples[i] = 0

\* |x|
Abs(x) == IF x < 0 THEN -x ELSE x

\* an iteration of the correction loop moves the residual one unit toward 0
C17_Iteration ==
    (pc = "loop" /\ pc' = "loop")
    => /\ Abs(difference') = Abs(difference) - 1
       /\ iterations' = iterations + 1

\* the loop is left with residual 0 after |d| iterations, d the residual it
\* was entered with
C17_Exit ==
    pc = "returned"
    => /\ difference = 0
       /\ iterations = Abs(difference0)

\* C17: the correction loop always terminates: every iteration moves the
\* residual exactly one unit toward 0, and for an initial residual d the
\* loop exits after exactly |d| iterations with residual 0, whatever indices
\* are chosen.
C17_LoopEndsAfterAbsResidualIterations ==
    /\ []C17_Exit
    /\ [][C17_Iteration]_vars
    /\ (pc = "loop") ~> (pc = "returned")

C17_Witness ==
    /\ pc = "returned"
    /\ difference0 < -1
    /\ iterations = Abs(difference0)

(***************************************************************************)
(* Further properties of the cache of fetch_single_query_from_newsapi.     *)
(***************************************************************************)
\* a cache file that a fetch of the program wrote: it was not there when the
\* program started, or it no longer holds what it held then
WrittenByAFetch(f) ==
    f \in DOMAIN cache /\ (f \in DOMAIN cache0 => cache[f] # cache0[f])

\* a step leaves every cache file that a fetch wrote as it is
C14_EntriesStay ==
    \A f \in DOMAIN cache :
        WrittenByAFetch(f) => (f \in DOMAIN cache' /\ cache'[f] = cache[f])

\* a step creates a cache file only for the key of the call it makes, when
\* that call was answered 2xx with an "ok" body, and the file holds that body
C14_CreatedBySuccess ==
    \A f \in DOMAIN cache' \ DOMAIN cache :
        /\ calls' = calls + 1
        /\ f = KeyOfCall(lastCall')
        /\ MissAnsweredOk(lastCall')
        /\ cache'[f] = JsonDump(lastCall'.net.body)

C18_EntriesAreOkAndOneRequestPerMiss ==
    cache0 = << >>
    => /\ \A f \in DOMAIN cache :
              /\ cache[f].fmt = "json"
              /\ BodyOk(cache[f].val)
       /\ lastCall.requests = lastCall.absent

C18_Witness ==
    /\ cache0 = << >>
    /\ calls = 2
    /\ lastCall.net = Response(200, ErrorBody)
    /\ lastCall.sent = << >>
    /\ lastCall.requests = 1
    /\ lastCall.absent = 1

C13_LoadReturnsWhatWasSaved ==
    lastIo.op = "load"
    => /\ ~lastIo.raised
       /\ IF lastIo.path \in DOMAIN lastIo.stored
          THEN lastIo.value = lastIo.stored[lastIo.path]
          ELSE /\ lastIo.value = JNone
               /\ lastIo.path \notin DOMAIN cache

C13_Witness ==
    /\ lastIo.op = "load"
    /\ DOMAIN lastIo.stored = CachePaths
    /\ lastIo.value.kind = "dict"
    /\ \E i \in DOMAIN lastIo.value.val :
           lastIo.value.val[i] = <<Awkward, JStr(Awkward)>>

=============================================================================
